---- MODULE Spec2Model ----
(***************************************************************************)
(* A model of app.py: the OCR pipeline pdf_to_single_output_pdf, the text  *)
(* functions it uses (clean_text, escape_paragraph_text, is_title) and the *)
(* Streamlit shell around it.                                              *)
(*                                                                         *)
(* A text is a sequence of character codes (Unicode code points), so that  *)
(* "ASCII" is a real test (code <= 127).  A page image is represented by   *)
(* the raw string that pytesseract.image_to_string returns for it.         *)
(***************************************************************************)
EXTENDS Integers, Sequences, FiniteSets

\* ------------------------------------------------------------- characters

\* '<' and '>' of the pattern r'<[^>]+>'
LT == 60
GT == 62
\* "\n", the separator of split("\n") and half of split("\n\n")
NL == 10
\* ' '
SP == 32
\* the last code of the class [\x00-\x7F]
AsciiMax == 127
\* is_title: len(line.split()) < 10
TitleWordLimit == 10

\* ----------------------------------------------------------------- bounds

MaxLen == 5
MaxPages == 2
MaxWords == 11

\* --------------------------------------------------------- Python strings

\* str.isspace() of one character, for the code points up to 255
IsSpace(c) == c \in {9, 10, 11, 12, 13, 28, 29, 30, 31, 32, 133, 160}

\* a cased character that is uppercase (category Lu), code points up to 255
IsUpperChar(c) == c \in (65..90) \cup (192..214) \cup (216..222)

\* a cased character that is lowercase (category Ll and the cased Lo), up to 255
IsLowerChar(c) == c \in (97..122) \cup {170, 181, 186} \cup (223..246) \cup (248..255)

\* str.isupper(): no lowercase cased character and at least one cased character
IsUpper(s) ==
    /\ \A i \in 1..Len(s) : ~IsLowerChar(s[i])
    /\ \E i \in 1..Len(s) : IsUpperChar(s[i])

\* the index of the first '>' of s at or after i, 0 when there is none
FirstGT(s, i) ==
    LET js == {j \in i..Len(s) : s[j] = GT}
    IN  IF js = {} THEN 0 ELSE CHOOSE j \in js : \A k \in js : j <= k

\* re.sub(r'<[^>]+>', '', s) scanning from index i: at a '<' the pattern matches
\* when the next character is not '>' and a '>' follows; the match ends at the
\* first such '>' ([^>] also matches a newline) and the scan resumes after it.
RECURSIVE SubTagsFrom(_, _)
SubTagsFrom(s, i) ==
    IF i > Len(s) THEN <<>>
    ELSE IF /\ s[i] = LT
            /\ i < Len(s)
            /\ s[i + 1] # GT
            /\ FirstGT(s, i + 2) # 0
         THEN SubTagsFrom(s, FirstGT(s, i + 2) + 1)
         ELSE <<s[i]>> \o SubTagsFrom(s, i + 1)

\* the variant whose character class excludes the newline: r'<[^>\n]+>'
RECURSIVE SubTagsOneLineFrom(_, _)
SubTagsOneLineFrom(s, i) ==
    IF i > Len(s) THEN <<>>
    ELSE IF /\ s[i] = LT
            /\ i < Len(s)
            /\ s[i + 1] # GT
            /\ FirstGT(s, i + 2) # 0
            /\ \A k \in (i + 1)..(FirstGT(s, i + 2) - 1) : s[k] # NL
         THEN SubTagsOneLineFrom(s, FirstGT(s, i + 2) + 1)
         ELSE <<s[i]>> \o SubTagsOneLineFrom(s, i + 1)

SubTagsOneLine(s) == SubTagsOneLineFrom(s, 1)

SubTags(s) == SubTagsFrom(s, 1)

\* re.sub(r'[^\x00-\x7F]+', '', s)
IsAscii(c) == c <= AsciiMax

SubNonAscii(s) == SelectSeq(s, IsAscii)

\* str.strip(): drop the leading and the trailing whitespace of the whole string
RECURSIVE LStrip(_)
LStrip(s) == IF s # <<>> /\ IsSpace(Head(s)) THEN LStrip(Tail(s)) ELSE s

RECURSIVE RStrip(_)
RStrip(s) ==
    IF s # <<>> /\ IsSpace(s[Len(s)]) THEN RStrip(SubSeq(s, 1, Len(s) - 1)) ELSE s

Strip(s) == RStrip(LStrip(s))

\* whether sep occurs in s at index i
OccursAt(s, sep, i) ==
    /\ i + Len(sep) - 1 <= Len(s)
    /\ \A k \in 1..Len(sep) : s[i + k - 1] = sep[k]

\* str.split(sep): s cut at the non-overlapping occurrences of sep found left to
\* right; cur is the piece being collected. Never returns an empty list.
RECURSIVE SplitFrom(_, _, _, _)
SplitFrom(s, sep, i, cur) ==
    IF i > Len(s) THEN <<cur>>
    ELSE IF OccursAt(s, sep, i)
         THEN <<cur>> \o SplitFrom(s, sep, i + Len(sep), <<>>)
         ELSE SplitFrom(s, sep, i + 1, Append(cur, s[i]))

Split(s, sep) == SplitFrom(s, sep, 1, <<>>)

\* str.split(): the maximal runs of non-whitespace characters
RECURSIVE WordsFrom(_, _, _)
WordsFrom(s, i, cur) ==
    IF i > Len(s) THEN (IF cur = <<>> THEN <<>> ELSE <<cur>>)
    ELSE IF IsSpace(s[i])
         THEN (IF cur = <<>> THEN <<>> ELSE <<cur>>) \o WordsFrom(s, i + 1, <<>>)
         ELSE WordsFrom(s, i + 1, Append(cur, s[i]))

Words(s) == WordsFrom(s, 1, <<>>)

\* ------------------------------------------------------ the text functions

\* clean_text without its tag removal
clean_text_keeps_tags(t) == Strip(t)

\* clean_text with a tag pattern that stops at a newline
clean_text_one_line_tags(t) == Strip(SubTagsOneLine(t))

clean_text(t) == Strip(SubTags(t))

\* extract_text_from_image: the OCR result of the image, cleaned
extract_text_from_image(image) == clean_text(image)

\* escape_paragraph_text that keeps the non-ASCII characters
escape_keeps_non_ascii(t) == SubTags(t)

\* escape_paragraph_text whose tag pattern admits ASCII characters only
RECURSIVE SubAsciiTagsFrom(_, _)
SubAsciiTagsFrom(s, i) ==
    IF i > Len(s) THEN <<>>
    ELSE IF /\ s[i] = LT
            /\ i < Len(s)
            /\ s[i + 1] # GT
            /\ FirstGT(s, i + 2) # 0
            /\ \A k \in (i + 1)..(FirstGT(s, i + 2) - 1) : IsAscii(s[k])
         THEN SubAsciiTagsFrom(s, FirstGT(s, i + 2) + 1)
         ELSE <<s[i]>> \o SubAsciiTagsFrom(s, i + 1)

escape_ascii_tags_only(t) == SubNonAscii(SubAsciiTagsFrom(t, 1))

escape_paragraph_text(t) == SubNonAscii(SubTags(t))

\* is_title with <= in place of <
is_title_off_by_one(l) == IsUpper(l) /\ Len(Words(l)) <= TitleWordLimit

is_title(l) == IsUpper(l) /\ Len(Words(l)) < TitleWordLimit

\* ---------------------------------------------------------------- inputs

\* the strings of at most n characters over the set A
Strings(A, n) == UNION {[1..k -> A] : k \in 0..n}

\* '<', '>', newline, space, 'A', and the non-ASCII lowercase letter e-acute
Alphabet == {LT, GT, NL, SP, 65, 233}

\* raw OCR results of sample pages: "AB\n\nb\nc", "<b>éa", "" and " C \nd"
SampleTexts ==
    { <<65, 66, NL, NL, 98, NL, 99>>, <<LT, 98, GT, 233, 97>>, <<>>,
      <<SP, 67, SP, NL, 100>> }

\* source documents of 0..MaxPages pages, each page one of the samples
SampleDocs == UNION {[1..k -> SampleTexts] : k \in 0..MaxPages}

\* the raw OCR results tried exhaustively: every string of at most MaxLen
\* characters, and the longer strings of newlines and letters (paragraph and
\* line structure) and of brackets and letters (nested and adjacent tags)
Texts ==
    Strings(Alphabet, MaxLen) \cup Strings({NL, 65}, MaxLen + 2)
        \cup Strings({LT, GT, 65}, MaxLen + 2)

\* one-page source documents whose page OCRs to any of these strings
TextDocs == {<<t>> : t \in Texts}

\* the words of the one-line pages: "A", "a", "1", and the non-ASCII "É", "é"
TitleWords == {<<65>>, <<97>>, <<49>>, <<201>>, <<233>>}

\* the line of n words, all w except the k-th, which is v, separated by sep
RECURSIVE LineOf(_, _, _, _, _)
LineOf(n, k, w, v, sep) ==
    IF n = 0 THEN <<>>
    ELSE LET rest == LineOf(n - 1, k, w, v, sep)
             word == IF n = k THEN v ELSE w
         IN  IF n = 1 THEN word ELSE rest \o sep \o word

\* one-page source documents whose page OCRs to one line of 0..MaxWords words
TitleDocs ==
    { <<LineOf(n, k, w, v, sep)>> :
        n \in 0..MaxWords, k \in {1, TitleWordLimit}, w \in TitleWords,
        v \in TitleWords, sep \in {<<SP>>, <<SP, 9>>} }

\* what an earlier run that failed left in temp.pdf
StaleDoc == << <<120>> >>

\* ------------------------------------------------------------------ state

VARIABLES
    shell,       \* position of the Streamlit script; "off": the function is called directly
    uploaded,    \* uploaded_file: [present, doc]
    disk,        \* the files: path -> [exists, doc]
    button,      \* whether st.download_button was called, and its data
    path,        \* input_pdf_path
    conv,        \* position inside pdf_to_single_output_pdf
    images,      \* images
    pageIdx,     \* how many images the for loop has taken
    text,        \* text (the cleaned text of the current page)
    paragraphs,  \* paragraphs
    pi,          \* how many paragraphs the loop has taken
    lines,       \* lines
    li,          \* how many lines the loop has taken
    line,        \* line, after escape_paragraph_text
    content,     \* content
    builds,      \* the calls of doc.build, each with the content it was given
    result,      \* the value returned: [kind, doc]
    raised,      \* the stage whose exception left the function, or "none"
    console,     \* what print wrote
    probe        \* a direct call of escape_paragraph_text: [calls, arg, ret]

shellVars == <<shell, uploaded, disk, button>>
loopVars == <<images, pageIdx, text, paragraphs, pi, lines, li, line>>
outVars == <<content, builds, result, raised, console>>
vars == <<shellVars, path, conv, loopVars, outVars, probe>>

TempPath == "temp.pdf"
DocPath == "doc.pdf"
Paths == {TempPath, DocPath}

Absent == [exists |-> FALSE, doc |-> <<>>]
File(d) == [exists |-> TRUE, doc |-> d]

NoResult == [kind |-> "unset", doc |-> <<>>]
NoneResult == [kind |-> "None", doc |-> <<>>]
\* buffer.getvalue(): the bytes doc.build wrote for the content it was given
Bytes(c) == [kind |-> "bytes", doc |-> c]

\* the flowables
ParagraphOf(t, style) == [kind |-> "Paragraph", text |-> t, style |-> style]
SpacerUnit == [kind |-> "Spacer", text |-> <<>>, style |-> "none"]
PageBreakUnit == [kind |-> "PageBreak", text |-> <<>>, style |-> "none"]

MissingMessage == "O arquivo nao existe."

NoProbe == [calls |-> 0, arg |-> <<>>, ret |-> <<>>]

\* the state before anything runs, for a source document d
Idle ==
    /\ button = [offered |-> FALSE, data |-> NoResult]
    /\ path = "" /\ conv = "idle"
    /\ images = <<>> /\ pageIdx = 0 /\ text = <<>>
    /\ paragraphs = <<>> /\ pi = 0 /\ lines = <<>> /\ li = 0 /\ line = <<>>
    /\ content = <<>> /\ builds = <<>> /\ result = NoResult
    /\ raised = "none" /\ console = <<>>

\* the ways a run starts, for the source documents of D: a direct call with a
\* path that exists or not, or the script with or without an upload, temp.pdf
\* absent or left behind by an earlier run
InitWith(D) ==
    /\ Idle
    /\ probe = NoProbe
    /\ \/ /\ shell = "off"
          /\ uploaded = [present |-> FALSE, doc |-> <<>>]
          /\ \/ disk = [p \in Paths |-> Absent]
             \/ \E d \in D : disk = [p \in Paths |-> IF p = DocPath THEN File(d) ELSE Absent]
       \/ /\ shell = "start"
          /\ \/ uploaded = [present |-> FALSE, doc |-> <<>>]
             \/ \E d \in D : uploaded = [present |-> TRUE, doc |-> d]
          /\ \/ disk = [p \in Paths |-> Absent]
             \/ disk = [p \in Paths |-> IF p = TempPath THEN File(StaleDoc) ELSE Absent]

Init == InitWith(SampleDocs)

InitText == InitWith(TextDocs)

InitTitle == InitWith(TitleDocs)

\* ------------------------------------------------------ the Streamlit shell

\* line 186: uploaded_file is None, the script ends without doing anything
NoUpload ==
    /\ shell = "start" /\ ~uploaded.present
    /\ shell' = "done"
    /\ UNCHANGED <<uploaded, disk, button, path, conv, loopVars, outVars, probe>>

\* lines 186-189: the upload is written to temp.pdf
WriteTemp ==
    /\ shell = "start" /\ uploaded.present
    /\ disk' = [disk EXCEPT ![TempPath] = File(uploaded.doc)]
    /\ shell' = "call"
    /\ UNCHANGED <<uploaded, button, path, conv, loopVars, outVars, probe>>

\* line 192: pdf_to_single_output_pdf("temp.pdf") is called
CallFromShell ==
    /\ shell = "call" /\ conv = "idle"
    /\ path' = TempPath
    /\ conv' = "check"
    /\ shell' = "converting"
    /\ UNCHANGED <<uploaded, disk, button, loopVars, outVars, probe>>

\* lines 195-200: the conversion returned, the download button is offered
DownloadButton ==
    /\ shell = "converting" /\ conv = "returned"
    /\ button' = [offered |-> TRUE, data |-> result]
    /\ shell' = "remove"
    /\ UNCHANGED <<uploaded, disk, path, conv, loopVars, outVars, probe>>

\* line 203: os.remove("temp.pdf")
RemoveTemp ==
    /\ shell = "remove"
    /\ disk' = [disk EXCEPT ![TempPath] = Absent]
    /\ shell' = "done"
    /\ UNCHANGED <<uploaded, button, path, conv, loopVars, outVars, probe>>

\* a shell that removes temp.pdf when the conversion raises (try/finally)
ScriptFailsCleaningUp ==
    /\ shell = "converting" /\ conv = "raised"
    /\ disk' = [disk EXCEPT ![TempPath] = Absent]
    /\ shell' = "failed"
    /\ UNCHANGED <<uploaded, button, path, conv, loopVars, outVars, probe>>

\* line 192: the conversion raised; nothing catches it and the script run ends
ScriptFails ==
    /\ shell = "converting" /\ conv = "raised"
    /\ shell' = "failed"
    /\ UNCHANGED <<uploaded, disk, button, path, conv, loopVars, outVars, probe>>

\* ------------------------------------------- pdf_to_single_output_pdf

\* a direct call of pdf_to_single_output_pdf(path)
CallDirect ==
    /\ shell = "off" /\ conv = "idle"
    /\ path' = DocPath
    /\ conv' = "check"
    /\ UNCHANGED <<shellVars, loopVars, outVars, probe>>

\* an exception of stage leaves the function: nothing is returned
Raise(stage) ==
    /\ raised' = stage
    /\ conv' = "raised"
    /\ UNCHANGED <<shellVars, path, loopVars, content, builds, result, console, probe>>

\* the existence check without its return: the message, then on to rasterize,
\* where convert_from_path fails on the missing file
MissingFallsThrough ==
    /\ conv = "check" /\ ~disk[path].exists
    /\ console' = Append(console, MissingMessage)
    /\ raised' = "rasterize"
    /\ conv' = "raised"
    /\ UNCHANGED <<shellVars, path, loopVars, content, builds, result, probe>>

\* lines 129-131: the path does not exist: print, and return None
Missing ==
    /\ conv = "check" /\ ~disk[path].exists
    /\ console' = Append(console, MissingMessage)
    /\ result' = NoneResult
    /\ conv' = "returned"
    /\ UNCHANGED <<shellVars, path, loopVars, content, builds, raised, probe>>

\* lines 134-152: convert_from_path gives the page images in page order; the
\* buffer, the document and the styles are made; content = []
Rasterize ==
    /\ conv = "check" /\ disk[path].exists
    /\ images' = disk[path].doc
    /\ content' = <<>>
    /\ conv' = "pages"
    /\ UNCHANGED <<shellVars, path, pageIdx, text, paragraphs, pi, lines, li, line,
                   builds, result, raised, console, probe>>

\* line 134: convert_from_path raises
RasterizeFails ==
    /\ conv = "check" /\ disk[path].exists
    /\ Raise("rasterize")

\* the for loop taking the images last to first
NextImageReversed == images[Len(images) - pageIdx]

\* line 155: the image the for loop takes next
NextImage == images[pageIdx + 1]

\* lines 155-157: the next image is taken, its text extracted and split into
\* paragraphs
ExtractPage ==
    /\ conv = "pages" /\ pageIdx < Len(images)
    /\ pageIdx' = pageIdx + 1
    /\ text' = extract_text_from_image(NextImage)
    /\ paragraphs' = Split(text', <<NL, NL>>)
    /\ pi' = 0
    /\ conv' = "paragraphs"
    /\ UNCHANGED <<shellVars, path, images, lines, li, line, outVars, probe>>

\* line 156: preprocessing or pytesseract raises on the next image
ExtractFails ==
    /\ conv = "pages" /\ pageIdx < Len(images)
    /\ pageIdx' = pageIdx + 1
    /\ raised' = "ocr"
    /\ conv' = "raised"
    /\ UNCHANGED <<shellVars, path, images, text, paragraphs, pi, lines, li, line,
                   content, builds, result, console, probe>>

\* the paragraph split that drops the empty lines
SplitLinesDroppingEmpty(p) == SelectSeq(Split(p, <<NL>>), LAMBDA l : l # <<>>)

\* line 160: lines = paragraph.split("\n")
SplitLines(p) == Split(p, <<NL>>)

\* lines 159-160: the next paragraph is taken and split into lines
NextParagraph ==
    /\ conv = "paragraphs" /\ pi < Len(paragraphs)
    /\ pi' = pi + 1
    /\ lines' = SplitLines(paragraphs[pi + 1])
    /\ li' = 0
    /\ conv' = "lines"
    /\ UNCHANGED <<shellVars, path, images, pageIdx, text, paragraphs, line,
                   outVars, probe>>

\* lines 161-168: the next line is escaped, classified and appended
AppendLine ==
    /\ conv = "lines" /\ li < Len(lines)
    /\ li' = li + 1
    /\ line' = escape_paragraph_text(lines[li + 1])
    /\ content' = Append(content,
                         ParagraphOf(line', IF is_title(line') THEN "title" ELSE "normal"))
    /\ UNCHANGED <<shellVars, path, conv, images, pageIdx, text, paragraphs, pi,
                   lines, builds, result, raised, console, probe>>

\* lines 165, 168: the Paragraph constructor raises on the escaped line
ParagraphFails ==
    /\ conv = "lines" /\ li < Len(lines)
    /\ li' = li + 1
    /\ line' = escape_paragraph_text(lines[li + 1])
    /\ raised' = "paragraph"
    /\ conv' = "raised"
    /\ UNCHANGED <<shellVars, path, images, pageIdx, text, paragraphs, pi, lines,
                   content, builds, result, console, probe>>

\* line 169: the lines of the paragraph are done, a spacer follows them
EndParagraph ==
    /\ conv = "lines" /\ li = Len(lines)
    /\ content' = Append(content, SpacerUnit)
    /\ conv' = "paragraphs"
    /\ UNCHANGED <<shellVars, path, loopVars, builds, result, raised, console, probe>>

\* line 172: the paragraphs of the page are done, a page break follows them
EndPage ==
    /\ conv = "paragraphs" /\ pi = Len(paragraphs)
    /\ content' = Append(content, PageBreakUnit)
    /\ conv' = "pages"
    /\ UNCHANGED <<shellVars, path, loopVars, builds, result, raised, console, probe>>

\* a build started as soon as the first page is done
BuildEarly ==
    /\ conv = "pages" /\ (pageIdx = Len(images) \/ pageIdx = 1)
    /\ builds' = Append(builds, content)
    /\ conv' = "built"
    /\ UNCHANGED <<shellVars, path, loopVars, content, result, raised, console, probe>>

\* line 175: every image is done: doc.build(content)
Build ==
    /\ conv = "pages" /\ pageIdx = Len(images)
    /\ builds' = Append(builds, content)
    /\ conv' = "built"
    /\ UNCHANGED <<shellVars, path, loopVars, content, result, raised, console, probe>>

\* line 175: doc.build raises
BuildFails ==
    /\ conv = "pages" /\ pageIdx = Len(images)
    /\ Raise("build")

\* lines 176-178: the bytes of the built document are returned
Return ==
    /\ conv = "built"
    /\ result' = Bytes(builds[Len(builds)])
    /\ conv' = "returned"
    /\ UNCHANGED <<shellVars, path, loopVars, content, builds, raised, console, probe>>

Compose ==
    \/ Missing \/ Rasterize \/ RasterizeFails
    \/ ExtractPage \/ ExtractFails
    \/ NextParagraph \/ AppendLine \/ ParagraphFails \/ EndParagraph \/ EndPage
    \/ Build \/ BuildFails \/ Return

Next ==
    \/ NoUpload \/ WriteTemp \/ CallFromShell \/ DownloadButton \/ RemoveTemp
    \/ ScriptFails
    \/ CallDirect
    \/ Compose

Spec == Init /\ [][Next]_vars

SpecText == InitText /\ [][Next]_vars

SpecTitle == InitTitle /\ [][Next]_vars

\* ------------------------------------- escape_paragraph_text called directly

\* a string is escaped, and the result is escaped again
ApplyEscape ==
    /\ probe.calls < 2
    /\ LET x == IF probe.calls = 0 THEN probe.arg ELSE probe.ret
       IN  probe' = [calls |-> probe.calls + 1, arg |-> x,
                     ret |-> escape_paragraph_text(x)]
    /\ UNCHANGED <<shellVars, path, conv, loopVars, outVars>>

InitEscape ==
    /\ Idle
    /\ shell = "off"
    /\ uploaded = [present |-> FALSE, doc |-> <<>>]
    /\ disk = [p \in Paths |-> Absent]
    /\ \E x \in Texts : probe = [calls |-> 0, arg |-> x, ret |-> <<>>]

NextEscape == ApplyEscape

SpecEscape == InitEscape /\ [][NextEscape]_vars

\* ------------------------------------------------- vocabulary of the claims

\* s holds a tag-shaped substring: '<', one or more characters other than '>'
\* (a newline included), '>'
HasTag(s) ==
    \E i, j \in 1..Len(s) :
        /\ i + 2 <= j
        /\ s[i] = LT /\ s[j] = GT
        /\ \A k \in (i + 1)..(j - 1) : s[k] # GT

AsciiOnly(s) == \A k \in 1..Len(s) : s[k] < 128

\* the positions of the page breaks of a content list, and how many there are
BreakPositions(c) == {i \in 1..Len(c) : c[i].kind = "PageBreak"}

NumKind(c, kind) == Cardinality({i \in 1..Len(c) : c[i].kind = kind})

\* the position of the n-th page break of c (0 for n = 0)
NthBreak(c, n) ==
    IF n = 0 THEN 0
    ELSE CHOOSE p \in BreakPositions(c) :
            Cardinality({q \in BreakPositions(c) : q <= p}) = n

\* the n-th section of c: what follows the (n-1)-th page break, up to and with
\* the n-th
Section(c, n) == SubSeq(c, NthBreak(c, n - 1) + 1, NthBreak(c, n))

\* the text a section stands for: its Paragraphs in order, a newline between two
\* that follow each other, two newlines where a spacer separates them
RECURSIVE JoinFrom(_, _)
JoinFrom(sec, i) ==
    IF i > Len(sec) THEN <<>>
    ELSE IF sec[i].kind # "Paragraph" THEN JoinFrom(sec, i + 1)
    ELSE (IF i = 1 THEN <<>>
          ELSE IF sec[i - 1].kind = "Paragraph" THEN <<NL>> ELSE <<NL, NL>>)
         \o sec[i].text \o JoinFrom(sec, i + 1)

JoinUnits(sec) == JoinFrom(sec, 1)

\* the shape of a section: Paragraphs first, every spacer right after a
\* Paragraph, one page break, at the end, right after a spacer
WellFormedSection(sec) ==
    /\ Len(sec) >= 3
    /\ sec[1].kind = "Paragraph"
    /\ sec[Len(sec)].kind = "PageBreak"
    /\ sec[Len(sec) - 1].kind = "Spacer"
    /\ \A i \in 1..(Len(sec) - 1) : sec[i].kind \in {"Paragraph", "Spacer"}
    /\ \A i \in 2..Len(sec) : sec[i].kind = "Spacer" => sec[i - 1].kind = "Paragraph"

\* how many times the two-newline sequence is found in t, left to right without
\* overlap
RECURSIVE CountBlankFrom(_, _)
CountBlankFrom(t, i) ==
    IF i + 1 > Len(t) THEN 0
    ELSE IF t[i] = NL /\ t[i + 1] = NL THEN 1 + CountBlankFrom(t, i + 2)
    ELSE CountBlankFrom(t, i + 1)

CountNewlines(t) == Cardinality({i \in 1..Len(t) : t[i] = NL})

\* the number of words of s: the positions where a run of non-whitespace starts
WordCount(s) ==
    Cardinality({i \in 1..Len(s) : ~IsSpace(s[i]) /\ (i = 1 \/ IsSpace(s[i - 1]))})

\* s is uppercase as a whole: it has a cased character and none that is lowercase
EntirelyUpper(s) ==
    LET cased == {i \in 1..Len(s) : IsUpperChar(s[i]) \/ IsLowerChar(s[i])}
    IN  cased # {} /\ \A i \in cased : IsUpperChar(s[i])

\* the text of the page the loop is at has been extracted
TextExtracted ==
    \/ conv \in {"paragraphs", "lines"}
    \/ conv \in {"pages", "built", "returned"} /\ pageIdx >= 1
    \/ conv = "raised" /\ raised = "paragraph"

\* --------------------------------------------------------------------- C1
\* C1: when the conversion of a source of N page images completes, the content
\* handed to doc.build holds exactly N page breaks and is the concatenation of
\* N sections in page order: the i-th section, ended by the i-th page break, is
\* the one derived from the text of page i.
C1_SectionsInPageOrder ==
    conv \in {"built", "returned"} /\ builds # <<>> =>
        LET c == builds[1]
            n == Len(images)
        IN  /\ NumKind(c, "PageBreak") = n
            /\ NthBreak(c, n) = Len(c)
            /\ \A i \in 1..n :
                 /\ WellFormedSection(Section(c, i))
                 /\ JoinUnits(Section(c, i)) = SubNonAscii(clean_text(images[i]))

C1_Witness ==
    /\ conv = "returned" /\ result.kind = "bytes"
    /\ Len(images) = 2 /\ images[1] # images[2]
    /\ NumKind(result.doc, "PageBreak") = 2

\* --------------------------------------------------------------------- C2
\* C2: called with a path that does not exist, the conversion returns None,
\* raises nothing, and rasterizes, extracts, appends and builds nothing: the
\* console message is its only effect.
C2_MissingPathReturnsNone ==
    shell = "off" /\ conv # "idle" /\ ~disk[path].exists =>
        /\ conv \in {"check", "returned"}
        /\ raised = "none"
        /\ images = <<>> /\ pageIdx = 0 /\ text = <<>> /\ paragraphs = <<>>
        /\ lines = <<>> /\ line = <<>>
        /\ content = <<>> /\ builds = <<>>
        /\ disk = [p \in Paths |-> Absent]
        /\ conv = "check" => result = NoResult /\ console = <<>>
        /\ conv = "returned" => result = NoneResult /\ console = <<MissingMessage>>

C2_Witness ==
    /\ shell = "off" /\ conv = "returned" /\ ~disk[path].exists
    /\ result = NoneResult /\ console = <<MissingMessage>>

\* --------------------------------------------------------------------- C3
\* C3: at every point of a conversion, the text of every Paragraph in the
\* content list is ASCII-only and holds no tag-shaped substring.
C3_ContentUnitsSafe ==
    \A i \in 1..Len(content) :
        content[i].kind = "Paragraph" =>
            AsciiOnly(content[i].text) /\ ~HasTag(content[i].text)

\* a Paragraph was appended for a raw line that held a non-ASCII character
C3_Witness ==
    /\ conv = "lines" /\ li >= 1
    /\ ~AsciiOnly(lines[li])
    /\ content[Len(content)].kind = "Paragraph"
    /\ content[Len(content)].text # <<>>

\* --------------------------------------------------------------------- C4
\* C4: escape_paragraph_text is idempotent: escaping the result of an escape
\* returns it unchanged, and the result of an escape holds no tag-shaped
\* substring that a second pass could remove.
C4_EscapeIdempotent ==
    /\ probe.calls >= 1 => ~HasTag(probe.ret)
    /\ probe.calls = 2 => probe.ret = probe.arg

\* a string escaped twice that still holds both brackets
C4_Witness ==
    /\ probe.calls = 2
    /\ \E i \in 1..Len(probe.ret) : probe.ret[i] = LT
    /\ \E i \in 1..Len(probe.ret) : probe.ret[i] = GT

\* --------------------------------------------------------------------- C5
\* C5: a line is given the title style if and only if its escaped text is
\* uppercase as a whole and has fewer than 10 whitespace-separated words; every
\* other line is given the normal style. The text classified is the escaped
\* one, which is the text of the Paragraph.
C5_TitleIffUpperAndFewWords ==
    /\ \A i \in 1..Len(content) :
         content[i].kind = "Paragraph" =>
            /\ content[i].style \in {"title", "normal"}
            /\ content[i].style = "title" <=>
                 (EntirelyUpper(content[i].text) /\ WordCount(content[i].text) < 10)
    /\ conv = "lines" /\ li >= 1 =>
         /\ content[Len(content)].text = line
         /\ line = SubNonAscii(lines[li])

\* a title whose raw line has 10 words, one of them non-ASCII and gone after
\* escaping
C5_Witness ==
    /\ conv = "lines" /\ li = 1
    /\ WordCount(lines[1]) = 10
    /\ content[Len(content)].style = "title"
    /\ WordCount(line) = 9

\* --------------------------------------------------------------------- C6
\* C6: in the shell, temp.pdf holds the upload before the conversion is called
\* and while it runs; it is deleted only after the conversion returned and the
\* download button was offered; when the script completes the file is gone,
\* and when the conversion raises the file is not deleted and stays on disk.
C6_TempFileStates ==
    /\ shell = "converting" => disk[TempPath] = File(uploaded.doc)
    /\ shell = "remove" =>
         disk[TempPath].exists /\ button.offered /\ conv = "returned"
    /\ shell = "done" /\ uploaded.present =>
         ~disk[TempPath].exists /\ button.offered /\ button.data = result
    /\ shell = "failed" =>
         disk[TempPath] = File(uploaded.doc) /\ conv = "raised" /\ ~button.offered

C6_DeletedOnlyAtTheEnd ==
    disk[TempPath].exists /\ ~disk'[TempPath].exists =>
        conv = "returned" /\ button.offered /\ shell' = "done"

C6_TempFileLifetime == []C6_TempFileStates /\ [][C6_DeletedOnlyAtTheEnd]_vars

\* the conversion raised on the second page and temp.pdf is still there
C6_Witness ==
    /\ shell = "failed" /\ raised = "ocr" /\ pageIdx = 2
    /\ disk[TempPath].exists

\* --------------------------------------------------------------------- C7
\* C7: doc.build is called at most once, and only when the section of every
\* page has been appended; when a stage fails the exception leaves the
\* function, nothing is returned, and nothing more is processed or retried.
C7_BuildOnceAtTheEnd ==
    /\ Len(builds) <= 1
    /\ builds # <<>> =>
         /\ builds[1] = content
         /\ pageIdx = Len(images)
         /\ NumKind(content, "PageBreak") = Len(images)
    /\ conv = "raised" <=> raised # "none"
    /\ raised # "none" => result = NoResult
    /\ raised \in {"ocr", "paragraph"} =>
         builds = <<>> /\ NumKind(content, "PageBreak") = pageIdx - 1
    /\ raised = "rasterize" => content = <<>> /\ pageIdx = 0 /\ builds = <<>>
    /\ shell = "failed" => conv = "raised" /\ ~button.offered

C7_NothingAfterFailure ==
    conv = "raised" =>
        UNCHANGED <<conv, raised, path, loopVars, content, builds, result, console>>

C7_FailurePropagates == []C7_BuildOnceAtTheEnd /\ [][C7_NothingAfterFailure]_vars

\* OCR failed on the second page after the first page's section was appended
C7_Witness ==
    /\ conv = "raised" /\ raised = "ocr" /\ pageIdx = 2 /\ Len(images) = 2
    /\ NumKind(content, "PageBreak") = 1
    /\ result = NoResult /\ builds = <<>>

\* --------------------------------------------------------------------- C8
\* C8: the cleaned text of a page holds no tag-shaped substring, also across
\* newlines, and neither starts nor ends with whitespace; it is the raw text
\* without its tags and without the whitespace at its two ends only, the
\* whitespace at the ends of interior lines being kept.
C8_CleanTextGuarantee ==
    TextExtracted =>
        LET raw == images[pageIdx]
            untagged == SubTags(raw)
        IN  /\ ~HasTag(text)
            /\ text # <<>> => ~IsSpace(text[1]) /\ ~IsSpace(text[Len(text)])
            /\ \E a, b \in 0..Len(untagged) :
                 /\ a + b <= Len(untagged)
                 /\ text = SubSeq(untagged, a + 1, Len(untagged) - b)
                 /\ \A k \in 1..a : IsSpace(untagged[k])
                 /\ \A k \in (Len(untagged) - b + 1)..Len(untagged) : IsSpace(untagged[k])
                 /\ text = <<>> => a = Len(untagged)

\* a raw text that starts with whitespace, cleaned to a text that lost it and
\* kept the space at the end of its first line
C8_Witness ==
    /\ conv = "paragraphs" /\ pageIdx = 1
    /\ Len(images[1]) >= 2
    /\ IsSpace(images[1][1])
    /\ Len(text) < Len(images[1])
    /\ \E i \in 1..(Len(text) - 1) : text[i] = SP /\ text[i + 1] = NL

\* --------------------------------------------------------------------- C9
\* C9: the section of a page is determined by its cleaned text: one Paragraph
\* per line, in order, empty lines and empty paragraphs included, one spacer
\* after the lines of each paragraph unit, one page break at the end; joining
\* the section's Paragraphs gives the text back (without its non-ASCII
\* characters). A page whose text is empty yields one normal Paragraph, one
\* spacer and one page break.
C9_SectionFromText ==
    \A i \in 1..NumKind(content, "PageBreak") :
        LET sec == Section(content, i)
            t == clean_text(images[i])
            blank == CountBlankFrom(t, 1)
        IN  /\ WellFormedSection(sec)
            /\ NumKind(sec, "Spacer") = blank + 1
            /\ NumKind(sec, "Paragraph") = CountNewlines(t) - 2 * blank + blank + 1
            /\ NumKind(sec, "PageBreak") = 1
            /\ JoinUnits(sec) = SubNonAscii(t)
            /\ t = <<>> =>
                 sec = <<ParagraphOf(<<>>, "normal"), SpacerUnit, PageBreakUnit>>

\* a finished page whose text has an empty paragraph unit between two others
C9_Witness ==
    /\ conv = "pages" /\ pageIdx = 1
    /\ NumKind(content, "Spacer") = 3
    /\ \E i \in 2..(Len(content) - 1) :
         /\ content[i].kind = "Paragraph" /\ content[i].text = <<>>
         /\ content[i - 1].kind = "Spacer" /\ content[i + 1].kind = "Spacer"

\* -------------------------------------------------------------------- C10
\* C10: inside the pipeline the tag removal of escape_paragraph_text changes
\* nothing: the cleaned text holds no tag, a tag of the raw text that spans
\* lines included, so no line holds one and the escaped line is the line
\* without its non-ASCII characters.
C10_TagRemovalIsNoOp ==
    /\ TextExtracted => ~HasTag(text)
    /\ conv = "lines" =>
         \A k \in 1..Len(lines) : ~HasTag(lines[k]) /\ SubTags(lines[k]) = lines[k]
    /\ conv = "lines" /\ li >= 1 => line = SubNonAscii(lines[li])

\* a line was escaped on a page whose raw text had a '<' and a '>' on
\* different lines with text between them
C10_Witness ==
    /\ conv = "lines" /\ li >= 1 /\ line # <<>>
    /\ \E i, j, k \in 1..Len(images[pageIdx]) :
         /\ i < k /\ k < j
         /\ images[pageIdx][i] = LT /\ images[pageIdx][k] = NL
         /\ images[pageIdx][j] = GT
         /\ Len(text) < Len(images[pageIdx]) - 2

====
